---- MODULE Spec2Model ----
(***************************************************************************)
(* Finite-state automata of src/automatons: DFA, NFA and epsilon-NFA built *)
(* by add_state, recognition, subset construction (NFA -> DFA), epsilon    *)
(* elimination (ENFA -> NFA) and DFA minimization; and the Earley          *)
(* recognizer of src/grammars/earley.                                      *)
(*                                                                         *)
(* An automaton is a record of the fields of AbstractAutomaton and of its  *)
(* TransitionFunction (state_map, transition_map).  A word is a sequence   *)
(* of one-character strings.  An operation that raises is modelled by the  *)
(* name of the exception it raises.                                        *)
(***************************************************************************)
EXTENDS Integers, Sequences, FiniteSets, TLC

VARIABLES
  caller, \* what the caller works with: variant, symbols, state names, targets
  aut,    \* the automaton the caller builds (DFA, NFA or ENFA)
  out,    \* the automaton returned by the last successful conversion
  call,   \* the last call made by the caller
  err,    \* "" when the last call returned, else the exception it raised
  pc,     \* position inside minimize(): "idle" outside of it
  p,      \* _hopcroft_non_distinguishable: the partition p
  w,      \* _hopcroft_non_distinguishable: the work set w
  a,      \* _hopcroft_non_distinguishable: the block popped from w
  sym,    \* _hopcroft_non_distinguishable: index of the symbol being processed
  self_word,  \* Earley.word: the word given to word_in_grammar
  situations, \* Earley.situations: the situations waiting to be processed
  processed,  \* Earley.processed: index i -> the situations processed at i
  returned,   \* word_in_grammar: "none" before a call, "running" inside it,
              \* then "True", "False" or the exception raised
  lists,      \* the list objects holding symbols, in order of creation
  instances   \* the automaton objects created, each with the index in lists
              \* of the list object its symbols attribute refers to

vars == <<caller, aut, out, call, err, pc, p, w, a, sym,
          self_word, situations, processed, returned, lists, instances>>

\* the fields of the Earley recognizer
earley == <<self_word, situations, processed, returned>>

\* the symbol lists and the automaton objects that refer to them
alphabets == <<lists, instances>>

\* the automata and the position of the caller that builds them
automata == <<caller, aut, out, call, err, pc, p, w, a, sym>>

----------------------------------------------------------------------------
(* Bounds and input sets *)

\* longest word the language claims are checked on
MaxWordLen == 3

\* longest word given to word_in_grammar, the words of the scenario aside
MaxEarleyLen == 3

\* largest max_length given to get_all_accepted_words
MaxEnumLen == 2

\* most list objects and most automaton objects a run creates
MaxLists == 3
MaxInstances == 3

\* one add_state call of a script
AddCall(name, transition_targets, is_starting, is_accepting) ==
  [name |-> name, transition_targets |-> transition_targets,
   is_starting |-> is_starting, is_accepting |-> is_accepting]

\* a caller that makes the add_state calls of a script, in order
Scripted(kind, symbols, script) ==
  [kind |-> kind, symbols |-> symbols,
   names |-> {script[i].name : i \in DOMAIN script}, targets |-> {},
   script |-> script]

\* the NFA over {0, 1} of the conversion scenario: start q1, q2, accepting q3
ScenarioNfa ==
  Scripted("NFA", <<"0", "1">>,
    << AddCall("q1", <<{"q1"}, {"q1", "q2"}>>, TRUE, FALSE),
       AddCall("q2", <<{"q3"}, {"q3"}>>, FALSE, FALSE),
       AddCall("q3", <<{}, {}>>, FALSE, TRUE) >>)

\* the DFA over {0, 1} of the minimization scenario: start q0, accepting q1
ScenarioDfa ==
  Scripted("DFA", <<"0", "1">>,
    << AddCall("q0", <<"q0", "q1">>, TRUE, FALSE),
       AddCall("q1", <<"q0", "q1">>, FALSE, TRUE) >>)

\* a DFA over {0, 1} built with fewer targets than symbols (zip stops at the
\* shorter list) and with a target that is never added
ShortTargetsDfa ==
  Scripted("DFA", <<"0", "1">>,
    << AddCall("a", <<"b">>, TRUE, FALSE),
       AddCall("b", <<"a", "c">>, FALSE, TRUE) >>)

\* an NFA over {0, 1} built the same way
ShortTargetsNfa ==
  Scripted("NFA", <<"0", "1">>,
    << AddCall("a", <<{"a", "b"}>>, TRUE, FALSE),
       AddCall("b", <<{"a"}, {"a", "c"}>>, FALSE, TRUE) >>)

\* a DFA over {0, 1} with two states that no word tells apart, each of which
\* leaves the pair on 0 and stays in it on 1
MergeDfa ==
  Scripted("DFA", <<"0", "1">>,
    << AddCall("c", <<"a", "b">>, TRUE, FALSE),
       AddCall("a", <<"c", "b">>, FALSE, FALSE),
       AddCall("b", <<"c", "a">>, FALSE, FALSE) >>)

\* the name of the null state ("Ø" in the source: one character, no brace,
\* comma or blank)
NullName == "O"

\* an NFA over {0} whose caller adds a state under the name of the null state
NullNameNfa ==
  Scripted("NFA", <<"0">>,
    << AddCall("a", <<{"a"}>>, TRUE, FALSE),
       AddCall(NullName, <<{"a"}>>, FALSE, TRUE) >>)

\* The callers: the variant built, the symbol list handed to the constructor,
\* the state names used and the targets passed for one symbol.  A caller adds
\* at most as many states as it has names (the same name may be added twice);
\* a caller with a script makes the calls of its script.
Callers ==
  { [kind |-> "DFA", symbols |-> <<"0">>, names |-> {"a", "b", "c"},
     targets |-> {"a", "b", "c"}, script |-> <<>>],
    [kind |-> "DFA", symbols |-> <<"0", "1">>, names |-> {"a", "b"},
     targets |-> {"a", "b"}, script |-> <<>>],
    [kind |-> "DFA", symbols |-> <<>>, names |-> {"a", "b"},
     targets |-> {"a", "b"}, script |-> <<>>],
    [kind |-> "NFA", symbols |-> <<"0">>, names |-> {"a", "b", "a, b"},
     targets |-> {{}, {"a"}, {"a, b"}, {"a", "b"}}, script |-> <<>>],
    [kind |-> "NFA", symbols |-> <<"0", "1">>, names |-> {"a", "b"},
     targets |-> SUBSET {"a", "b"}, script |-> <<>>],
    [kind |-> "ENFA", symbols |-> <<"0">>, names |-> {"a", "b"},
     targets |-> SUBSET {"a", "b"}, script |-> <<>>],
    ScenarioNfa, ScenarioDfa, ShortTargetsDfa, ShortTargetsNfa, MergeDfa,
    NullNameNfa }

Min(x, y) == IF x <= y THEN x ELSE y

EmptyFn == [z \in {} |-> z]

Range(s) == {s[i] : i \in DOMAIN s}

RECURSIVE WordsOfLen(_, _)
WordsOfLen(alphabet, n) ==
  IF n = 0 THEN {<<>>}
  ELSE {<<c>> \o v : c \in alphabet, v \in WordsOfLen(alphabet, n - 1)}

\* every word over the alphabet up to length n, the empty word included
Words(alphabet, n) == UNION {WordsOfLen(alphabet, k) : k \in 0..n}

----------------------------------------------------------------------------
(* State: src/automatons/structures/state.py.  State defines neither       *)
(* __eq__ nor __hash__, so two State objects are equal only when they are  *)
(* the same object.  The model tells the objects of one automaton apart by *)
(* (name, id): id counts the State objects created under that name.        *)

State(name, id, is_starting, is_accepting) ==
  [name |-> name, id |-> id, is_starting |-> is_starting, is_accepting |-> is_accepting]

\* Python's None, where a State is expected
None == State("None", 0, FALSE, FALSE)

\* the result of a call that raised the exception e, where a State is expected
Exc(e) == State(e, -1, FALSE, FALSE)

IsExc(s) == s.id = -1

\* the exception carried by a set of states, "" when there is none
ExcOf(S) == IF \E s \in S : IsExc(s) THEN (CHOOSE s \in S : IsExc(s)).name ELSE ""

----------------------------------------------------------------------------
(* TransitionFunction: src/automatons/structures/transition_function.py    *)

\* set_transitions_for_state: zip(self.symbols, targets), a later pair winning
set_transitions_for_state(symbols, targets) ==
  LET n == Min(Len(symbols), Len(targets))
  IN [s \in {symbols[i] : i \in 1..n} |->
        targets[CHOOSE i \in 1..n : symbols[i] = s /\ \A j \in 1..n : symbols[j] = s => j <= i]]

\* a lookup that answers None for a name without a state instead of raising
DetCallSilent(m, state, symbol) ==
  IF IsExc(state) THEN state
  ELSE IF state = None THEN Exc("AttributeError")
  ELSE IF state.name \notin DOMAIN m.transition_map THEN Exc("KeyError")
  ELSE IF symbol \notin DOMAIN m.transition_map[state.name]
    THEN Exc("TransitionFunctionError")
  ELSE LET state_name == m.transition_map[state.name][symbol]
       IN IF state_name \notin DOMAIN m.state_map THEN None
          ELSE m.state_map[state_name]

\* DeterministicTransitionFunction.__call__
DetCall(m, state, symbol) ==
  IF IsExc(state) THEN state
  ELSE IF state = None THEN Exc("AttributeError")
  ELSE IF state.name \notin DOMAIN m.transition_map THEN Exc("KeyError")
  ELSE IF symbol \notin DOMAIN m.transition_map[state.name]
    THEN Exc("TransitionFunctionError")
  ELSE LET state_name == m.transition_map[state.name][symbol]
       IN IF state_name \notin DOMAIN m.state_map THEN Exc("KeyError")
          ELSE m.state_map[state_name]

\* a lookup that leaves out the names without a state instead of raising
NonDetCallSilent(m, state, symbol) ==
  IF IsExc(state) THEN {state}
  ELSE IF state = None THEN {Exc("AttributeError")}
  ELSE IF state.name \notin DOMAIN m.transition_map THEN {Exc("KeyError")}
  ELSE IF symbol \notin DOMAIN m.transition_map[state.name] THEN {}
  ELSE LET state_names == m.transition_map[state.name][symbol]
       IN {m.state_map[n] : n \in state_names \cap DOMAIN m.state_map}

\* NonDeterministicTransitionFunction.__call__
NonDetCall(m, state, symbol) ==
  IF IsExc(state) THEN {state}
  ELSE IF state = None THEN {Exc("AttributeError")}
  ELSE IF state.name \notin DOMAIN m.transition_map THEN {Exc("KeyError")}
  ELSE IF symbol \notin DOMAIN m.transition_map[state.name] THEN {}
  ELSE LET state_names == m.transition_map[state.name][symbol]
       IN IF \E n \in state_names : n \notin DOMAIN m.state_map THEN {Exc("KeyError")}
          ELSE {m.state_map[n] : n \in state_names}

----------------------------------------------------------------------------
(* AbstractAutomaton: src/automatons/abstract_automaton.py                 *)

NoClosure == [defined |-> FALSE, map |-> EmptyFn]

\* AbstractAutomaton.__init__ and the constructor of the transition function
NewAutomaton(kind, symbols) ==
  [kind |-> kind, symbols |-> symbols, states |-> {}, start_state |-> None,
   null_state |-> None, state_map |-> EmptyFn, transition_map |-> EmptyFn,
   e_closure |-> NoClosure]

\* no automaton (out before any conversion)
NoAut == NewAutomaton("none", <<>>)

\* the State object add_state creates
new_state(m, name, is_starting, is_accepting) ==
  State(name, Cardinality({s \in m.states : s.name = name}) + 1, is_starting, is_accepting)

\* an add_state that never checks for an existing start state
add_state_never_raises(m, is_starting) == FALSE

\* AbstractAutomaton.add_state raises InvalidStateError (lines 45-47)
add_state_raises(m, is_starting) == is_starting /\ m.start_state # None

\* an add_state that flags the state starting but forgets self.start_state
add_state_forgets_start(m, name, transition_targets, is_starting, is_accepting) ==
  LET s == new_state(m, name, is_starting, is_accepting)
  IN [m EXCEPT
        !.states = @ \cup {s},
        !.state_map = (name :> s) @@ @,
        !.transition_map =
           (name :> set_transitions_for_state(m.symbols, transition_targets)) @@ @]

\* an add_state that stores the new state and its row, and drops the closure,
\* before it checks for an existing start state
add_state_raising_late(m, name, transition_targets, is_starting, is_accepting) ==
  LET s == new_state(m, name, is_starting, is_accepting)
  IN [m EXCEPT
        !.states = @ \cup {s},
        !.state_map = (name :> s) @@ @,
        !.transition_map =
           (name :> set_transitions_for_state(m.symbols, transition_targets)) @@ @,
        !.e_closure = NoClosure]

\* the automaton after add_state has raised InvalidStateError: the raise comes
\* after State(...) and before every assignment (lines 42-47), and ENFA.add_state
\* calls it before it recomputes the closure (enf_automaton.py 82)
add_state_raised(m, name, transition_targets, is_starting, is_accepting) == m

\* an add_state that stores only the targets that name a state already added
add_state_drops_unknown(m, name, transition_targets, is_starting, is_accepting) ==
  LET s == new_state(m, name, is_starting, is_accepting)
      row == set_transitions_for_state(m.symbols, transition_targets)
      known == DOMAIN m.state_map \cup {name}
      kept == {x \in DOMAIN row :
                 IF m.kind = "DFA" THEN row[x] \in known ELSE row[x] \subseteq known}
  IN [m EXCEPT
        !.start_state = IF is_starting THEN s ELSE @,
        !.states = @ \cup {s},
        !.state_map = (name :> s) @@ @,
        !.transition_map = (name :> [x \in kept |-> row[x]]) @@ @]

\* AbstractAutomaton.add_state when it does not raise (lines 42-54)
abstract_add_state(m, name, transition_targets, is_starting, is_accepting) ==
  LET s == new_state(m, name, is_starting, is_accepting)
  IN [m EXCEPT
        !.start_state = IF is_starting THEN s ELSE @,
        !.states = @ \cup {s},
        !.state_map = (name :> s) @@ @,
        !.transition_map =
           (name :> set_transitions_for_state(m.symbols, transition_targets)) @@ @]

\* str.strip(): leading and trailing whitespace removed
RECURSIVE LStrip(_)
LStrip(word) ==
  IF word # <<>> /\ Head(word) = " " THEN LStrip(Tail(word)) ELSE word

RECURSIVE RStrip(_)
RStrip(word) ==
  IF word # <<>> /\ word[Len(word)] = " " THEN RStrip(SubSeq(word, 1, Len(word) - 1))
  ELSE word

Strip(word) == RStrip(LStrip(word))

\* AbstractAutomaton.verify_word: "" when it returns, else the exception
verify_word(m, word) ==
  IF \E i \in DOMAIN Strip(word) : Strip(word)[i] \notin Range(m.symbols)
    THEN "InvalidSymbolError"
  ELSE IF m.start_state = None THEN "InvalidStateError"
  ELSE ""

\* the outcome of accepts_word for a final state: a boolean or the exception
Outcome(state) ==
  IF IsExc(state) THEN state.name
  ELSE IF state = None THEN "AttributeError"
  ELSE IF state.is_accepting THEN "True" ELSE "False"

----------------------------------------------------------------------------
(* DFA: src/automatons/df_automaton.py                                     *)

RECURSIVE DfaFold(_, _, _)
DfaFold(m, current_state, word) ==
  IF word = <<>> \/ IsExc(current_state) THEN current_state
  ELSE DfaFold(m, DetCall(m, current_state, Head(word)), Tail(word))

\* DFA.get_resulting_state
dfa_get_resulting_state(m, word) ==
  IF verify_word(m, word) # "" THEN Exc(verify_word(m, word))
  ELSE DfaFold(m, m.start_state, word)

\* AbstractAutomaton.accepts_word on a DFA
dfa_accepts_word(m, word) == Outcome(dfa_get_resulting_state(m, word))

----------------------------------------------------------------------------
(* NFA: src/automatons/nf_automaton.py                                     *)

\* NFA.__init__: the null state is added through add_state
NewNFA(kind, symbols) ==
  LET m == abstract_add_state(NewAutomaton(kind, symbols), NullName,
                              [i \in 1..Len(symbols) |-> {}], FALSE, FALSE)
  IN [m EXCEPT !.null_state = m.state_map[NullName]]

\* a get_next_state that assigns the targets of one state instead of
\* collecting the targets of all
get_next_state_of_one(m, states, symbol) ==
  IF symbol \notin Range(m.symbols) THEN {Exc("InvalidSymbolError")}
  ELSE IF states = {} THEN {}
  ELSE NonDetCall(m, CHOOSE state \in states : TRUE, symbol)

\* NFA.get_next_state: a set holding Exc(e) when the call raises e
get_next_state(m, states, symbol) ==
  IF symbol \notin Range(m.symbols) THEN {Exc("InvalidSymbolError")}
  ELSE UNION {NonDetCall(m, state, symbol) : state \in states}

RECURSIVE NfaFold(_, _, _)
NfaFold(m, current_states, word) ==
  IF word = <<>> \/ ExcOf(current_states) # "" THEN current_states
  ELSE NfaFold(m, get_next_state(m, current_states, Head(word)), Tail(word))

\* NFA.get_resulting_state
nfa_get_resulting_state(m, word) ==
  IF verify_word(m, word) # "" THEN {Exc(verify_word(m, word))}
  ELSE NfaFold(m, {m.start_state}, word)

\* any(state.is_accepting for state in states), or the exception raised before
AnyAccepting(states) ==
  IF ExcOf(states) # "" THEN ExcOf(states)
  ELSE IF \E s \in states : s.is_accepting THEN "True" ELSE "False"

\* NFA.accepts_word
nfa_accepts_word(m, word) == AnyAccepting(nfa_get_resulting_state(m, word))

\* The order in which Python iterates over a set of State objects is fixed by
\* their addresses.  The model lists a set by (name, id), ascending or
\* descending, and lets the caller of an iteration choose which.
NameOrder == <<NullName, "a", "b", "a, b", "c", "q0", "q1", "q2", "q3">>

NameRank(name) == CHOOSE i \in DOMAIN NameOrder : NameOrder[i] = name

Before(s, t) ==
  \/ NameRank(s.name) < NameRank(t.name)
  \/ s.name = t.name /\ s.id < t.id

RECURSIVE Listed(_, _)
Listed(states, rev) ==
  IF states = {} THEN <<>>
  ELSE LET first == CHOOSE s \in states :
                      \A t \in states \ {s} : IF rev THEN Before(t, s) ELSE Before(s, t)
       IN <<first>> \o Listed(states \ {first}, rev)

\* NFA._get_raw_name, the set iterated in the order Listed(states, rev):
\* every name followed by ", ", the last two characters then cut off
RECURSIVE JoinNames(_)
JoinNames(listed) ==
  IF Len(listed) = 1 THEN listed[1].name
  ELSE listed[1].name \o ", " \o JoinNames(Tail(listed))

get_raw_name(states, rev) ==
  IF Cardinality(states) = 0 THEN NullName
  ELSE "{" \o JoinNames(Listed(states, rev)) \o "}"

\* the while loop of NFA.convert_to_dfa (lines 145-155)
RECURSIVE SubsetLoop(_, _, _, _)
SubsetLoop(m, visited, states_to_check, transitions) ==
  IF Len(states_to_check) = 0
    THEN [exc |-> "", visited |-> visited, transitions |-> transitions]
  ELSE LET state == Head(states_to_check)
           rest == Tail(states_to_check)
       IN IF state \in Range(visited)
            THEN SubsetLoop(m, visited, rest, transitions)
          ELSE LET visited2 == Append(visited, state)
                   resulting_states ==
                     [i \in 1..Len(m.symbols) |-> get_next_state(m, state, m.symbols[i])]
                   raised == {i \in 1..Len(m.symbols) : ExcOf(resulting_states[i]) # ""}
               IN IF raised # {}
                    THEN [exc |-> ExcOf(resulting_states[CHOOSE i \in raised :
                                                           \A j \in raised : i <= j]),
                          visited |-> visited2, transitions |-> transitions]
                  ELSE SubsetLoop(m, visited2,
                         rest \o SelectSeq(resulting_states,
                                           LAMBDA r : r \notin Range(visited2)),
                         Append(transitions, <<state>> \o resulting_states))

\* the index of a set of states in visited: the lookup through
\* tuple(sorted(state, key=name)), the key of state_map (lines 157-159)
VisitIndex(visited, states) == CHOOSE i \in DOMAIN visited : visited[i] = states

\* the DFA state name given to visited[i] (lines 157-159)
DfaStateName(visited, i, map_states, rev) ==
  IF map_states THEN "s" \o ToString(i - 1) ELSE get_raw_name(visited[i], rev)

\* a DFA state that accepts only when every member accepts
DfaAcceptingAll(states) == \A x \in states : x.is_accepting

\* any(map(lambda x: x.is_accepting, transition[0])) (line 165)
DfaAccepting(states) == \E x \in states : x.is_accepting

\* a loop that adds no state for the empty set
RECURSIVE BuildDfaWithoutSink(_, _, _, _, _, _)
BuildDfaWithoutSink(dfa, visited, transitions, i, map_states, rev) ==
  IF i > Len(transitions) THEN dfa
  ELSE LET transition == transitions[i]
           name == DfaStateName(visited, VisitIndex(visited, transition[1]), map_states, rev)
           targets == [k \in 1..(Len(transition) - 1) |->
                         DfaStateName(visited, VisitIndex(visited, transition[k + 1]),
                                      map_states, rev)]
       IN BuildDfaWithoutSink(
            IF transition[1] = {} THEN dfa
            ELSE abstract_add_state(dfa, name, targets, i = 1, DfaAccepting(transition[1])),
            visited, transitions, i + 1, map_states, rev)

\* the loop of add_state calls that builds the DFA (lines 161-165)
RECURSIVE BuildDfa(_, _, _, _, _, _)
BuildDfa(dfa, visited, transitions, i, map_states, rev) ==
  IF i > Len(transitions) THEN dfa
  ELSE LET transition == transitions[i]
           name == DfaStateName(visited, VisitIndex(visited, transition[1]), map_states, rev)
           targets == [k \in 1..(Len(transition) - 1) |->
                         DfaStateName(visited, VisitIndex(visited, transition[k + 1]),
                                      map_states, rev)]
       IN BuildDfa(abstract_add_state(dfa, name, targets, i = 1,
                                      DfaAccepting(transition[1])),
                   visited, transitions, i + 1, map_states, rev)

\* NFA.convert_to_dfa: [exc |-> the exception or "", aut |-> the DFA]
nfa_convert_to_dfa(m, map_states, rev) ==
  IF m.start_state = None THEN [exc |-> "AttributeError", aut |-> NoAut]
  ELSE LET r == SubsetLoop(m, <<>>, <<{m.start_state}>>, <<>>)
       IN IF r.exc # "" THEN [exc |-> r.exc, aut |-> NoAut]
          ELSE [exc |-> "",
                aut |-> BuildDfa(NewAutomaton("DFA", m.symbols), r.visited,
                                 r.transitions, 1, map_states, rev)]

----------------------------------------------------------------------------
(* ENFA: src/automatons/enf_automaton.py                                   *)

\* a closure that leaves the state itself out
ClosureEntryWithoutSelf(state, e_targets, map) == UNION {map[t] : t \in e_targets}

\* closure = {state}, then closure.update(...) for every target (lines 148-150)
ClosureEntry(state, e_targets, map) == {state} \cup UNION {map[t] : t \in e_targets}

\* ENFA._calculate_e_closure_for_state, with the memo self.e_closure threaded
\* through: [exc |-> the exception or "", map |-> e_closure].  The entry of a
\* state is stored only after its targets are done, so a state met again while
\* it is being computed recurses without end; a recursion deeper than the number
\* of states has met a state twice, and Python ends it with RecursionError.
RECURSIVE calculate_e_closure_for_state(_, _, _, _)
RECURSIVE ClosureOfTargets(_, _, _, _)
calculate_e_closure_for_state(m, memo, state, depth) ==
  IF memo.exc # "" \/ state \in DOMAIN memo.map THEN memo
  ELSE IF depth > Cardinality(m.states) THEN [exc |-> "RecursionError", map |-> memo.map]
  ELSE LET e_targets == NonDetCall(m, state, "e")
       IN IF ExcOf(e_targets) # "" THEN [exc |-> ExcOf(e_targets), map |-> memo.map]
          ELSE LET done == ClosureOfTargets(m, memo, Listed(e_targets, FALSE), depth + 1)
               IN IF done.exc # "" THEN done
                  ELSE [exc |-> "",
                        map |-> (state :> ClosureEntry(state, e_targets, done.map))
                                @@ done.map]

\* the loop over e_targets (lines 149-150)
ClosureOfTargets(m, memo, targets, depth) ==
  IF Len(targets) = 0 \/ memo.exc # "" THEN memo
  ELSE ClosureOfTargets(m, calculate_e_closure_for_state(m, memo, Head(targets), depth),
                        Tail(targets), depth)

\* ENFA._calculate_e_closure: the loop over self.states (lines 139-141)
RECURSIVE ClosureOfStates(_, _, _)
ClosureOfStates(m, memo, states) ==
  IF Len(states) = 0 \/ memo.exc # "" THEN memo
  ELSE ClosureOfStates(m, calculate_e_closure_for_state(m, memo, Head(states), 1),
                       Tail(states))

calculate_e_closure(m) ==
  ClosureOfStates(m, [exc |-> "", map |-> EmptyFn], Listed(m.states, FALSE))

\* ENFA.add_state when AbstractAutomaton.add_state does not raise: the closure
\* map is recomputed, and set to None when the computation raises (lines 82-88)
enfa_add_state(m, name, transition_targets, is_starting, is_accepting) ==
  LET m2 == abstract_add_state(m, name, transition_targets, is_starting, is_accepting)
      c == calculate_e_closure(m2)
  IN [m2 EXCEPT !.e_closure = IF c.exc # "" THEN NoClosure
                              ELSE [defined |-> TRUE, map |-> c.map]]

\* ENFA.__init__: "e" is appended to the symbols; NFA.__init__ then adds the
\* null state through ENFA.add_state
NewENFA(symbols) ==
  LET m == enfa_add_state(NewAutomaton("ENFA", Append(symbols, "e")), NullName,
                          [i \in 1..(Len(symbols) + 1) |-> {}], FALSE, FALSE)
  IN [m EXCEPT !.null_state = m.state_map[NullName]]

\* ENFA._apply_closure: self.e_closure[state] raises TypeError on None
apply_closure(m, states) ==
  IF ExcOf(states) # "" THEN {Exc(ExcOf(states))}
  ELSE IF states = {} THEN {}
  ELSE IF ~m.e_closure.defined THEN {Exc("TypeError")}
  ELSE IF \E s \in states : s \notin DOMAIN m.e_closure.map THEN {Exc("KeyError")}
  ELSE UNION {m.e_closure.map[s] : s \in states}

RECURSIVE EnfaFold(_, _, _)
EnfaFold(m, current_states, word) ==
  IF word = <<>> \/ ExcOf(current_states) # "" THEN current_states
  ELSE EnfaFold(m, apply_closure(m, get_next_state(m, current_states, Head(word))),
                Tail(word))

\* ENFA.get_resulting_state
enfa_get_resulting_state(m, word) ==
  IF verify_word(m, word) # "" THEN {Exc(verify_word(m, word))}
  ELSE EnfaFold(m, apply_closure(m, {m.start_state}), word)

\* NFA.accepts_word on an ENFA
enfa_accepts_word(m, word) == AnyAccepting(enfa_get_resulting_state(m, word))

\* ENFA._is_accepting
enfa_is_accepting(m, state) == \E x \in m.e_closure.map[state] : x.is_accepting

\* the transition targets convert_to_nfa computes for one state (lines 123-128)
NfaTargets(m, nfa_symbols, closure) ==
  [i \in 1..Len(nfa_symbols) |->
     apply_closure(m, UNION {NonDetCall(m, closure_state, nfa_symbols[i]) :
                             closure_state \in closure})]

\* the loop of ENFA.convert_to_nfa over self.states (lines 119-130)
RECURSIVE ConvertStates(_, _, _, _)
ConvertStates(m, nfa, nfa_symbols, states) ==
  IF Len(states) = 0 THEN [exc |-> "", aut |-> nfa]
  ELSE LET state == Head(states)
       IN IF state = m.null_state THEN ConvertStates(m, nfa, nfa_symbols, Tail(states))
          ELSE IF ~m.e_closure.defined THEN [exc |-> "TypeError", aut |-> NoAut]
          ELSE IF state \notin DOMAIN m.e_closure.map THEN [exc |-> "KeyError", aut |-> NoAut]
          ELSE LET transition_targets == NfaTargets(m, nfa_symbols, m.e_closure.map[state])
                   raised == {i \in 1..Len(nfa_symbols) :
                                ExcOf(transition_targets[i]) # ""}
               IN IF raised # {}
                    THEN [exc |-> ExcOf(transition_targets[CHOOSE i \in raised :
                                                             \A j \in raised : i <= j]),
                          aut |-> NoAut]
                  ELSE IF add_state_raises(nfa, state.is_starting)
                    THEN [exc |-> "InvalidStateError", aut |-> NoAut]
                  ELSE ConvertStates(m,
                         abstract_add_state(nfa, state.name,
                            [i \in 1..Len(nfa_symbols) |->
                               {x.name : x \in transition_targets[i]}],
                            state.is_starting, enfa_is_accepting(m, state)),
                         nfa_symbols, Tail(states))

\* ENFA.convert_to_nfa, self.states iterated in the order Listed(states, rev)
convert_to_nfa(m, rev) ==
  LET nfa_symbols == SubSeq(m.symbols, 1, Len(m.symbols) - 1)
  IN ConvertStates(m, NewNFA("NFA", nfa_symbols), nfa_symbols, Listed(m.states, rev))

\* ENFA.convert_to_dfa
enfa_convert_to_dfa(m, map_states, rev) ==
  LET nfa == convert_to_nfa(m, rev)
  IN IF nfa.exc # "" THEN nfa ELSE nfa_convert_to_dfa(nfa.aut, map_states, rev)

\* accepts_word of the three variants
accepts_word(m, word) ==
  IF m.kind = "DFA" THEN dfa_accepts_word(m, word)
  ELSE IF m.kind = "NFA" THEN nfa_accepts_word(m, word)
  ELSE enfa_accepts_word(m, word)

\* itertools.product(*[symbols for _ in range(length)]): the tuples of the
\* given length in odometer order, the last position turning fastest; each is
\* joined into a word
Product(symbols, length) ==
  LET n == Len(symbols)
  IN [k \in 1..(n ^ length) |->
        [j \in 1..length |-> symbols[(((k - 1) \div (n ^ (length - j))) % n) + 1]]]

\* a range that starts with the length 0
LengthsFromZero(max_length) == [k \in 1..(max_length + 1) |-> k - 1]

\* range(1, max_length + 1)
Lengths(max_length) == [k \in 1..max_length |-> k]

\* the words get_all_accepted_words tries, in the order it tries them
RECURSIVE Candidates(_, _)
Candidates(symbols, lengths) ==
  IF lengths = <<>> THEN <<>>
  ELSE Product(symbols, Head(lengths)) \o Candidates(symbols, Tail(lengths))

\* the loop of get_all_accepted_words over the words to try (lines 102-103)
RECURSIVE AcceptedLoop(_, _, _)
AcceptedLoop(m, words, accepted_words) ==
  IF words = <<>> THEN [exc |-> "", words |-> accepted_words]
  ELSE LET r == accepts_word(m, Head(words))
       IN IF r = "True" THEN AcceptedLoop(m, Tail(words), Append(accepted_words, Head(words)))
          ELSE IF r = "False" THEN AcceptedLoop(m, Tail(words), accepted_words)
          ELSE [exc |-> r, words |-> <<>>]

\* AbstractAutomaton.get_all_accepted_words:
\* [exc |-> the exception or "", words |-> the list returned]
get_all_accepted_words(m, max_length) ==
  AcceptedLoop(m, Candidates(m.symbols, Lengths(max_length)), <<>>)

----------------------------------------------------------------------------
(* DFA.minimize: src/automatons/df_automaton.py, lines 147-253              *)

\* a remove_state that exists and deletes the state, its name and its row
remove_state_deleting(m, state) ==
  [exc |-> "",
   aut |-> [m EXCEPT
              !.states = @ \ {state},
              !.start_state = IF @ = state THEN None ELSE @,
              !.state_map = [n \in DOMAIN @ \ {state.name} |-> @[n]],
              !.transition_map = [n \in DOMAIN @ \ {state.name} |-> @[n]]]]

\* self.remove_state(state) (lines 170 and 240): neither DFA nor
\* AbstractAutomaton defines remove_state, so the call raises AttributeError
\* and the automaton is left as it was.
\* [exc |-> the exception or "", aut |-> the automaton after the call]
remove_state(m, state) == [exc |-> "AttributeError", aut |-> m]

\* for state in states: self.remove_state(state)
RECURSIVE RemoveAll(_, _)
RemoveAll(m, states) ==
  IF Len(states) = 0 THEN [exc |-> "", aut |-> m]
  ELSE LET r == remove_state(m, Head(states))
       IN IF r.exc # "" THEN r ELSE RemoveAll(r.aut, Tail(states))

\* the while loop of _remove_unreachable_states (lines 157-167): the set
\* reachable_states, holding Exc(e) when a transition lookup raises e
RECURSIVE ReachLoop(_, _, _)
ReachLoop(m, reachable_states, new_states) ==
  LET temp == {DetCall(m, state, m.symbols[i]) :
                 state \in new_states, i \in 1..Len(m.symbols)}
      new2 == temp \ reachable_states
  IN IF ExcOf(temp) # "" THEN {Exc(ExcOf(temp))}
     ELSE IF Cardinality(new2) = 0 THEN reachable_states
     ELSE ReachLoop(m, reachable_states \cup new2, new2)

\* DFA._remove_unreachable_states
remove_unreachable_states(m) ==
  LET reachable_states == ReachLoop(m, {m.start_state}, {m.start_state})
  IN IF ExcOf(reachable_states) # "" THEN [exc |-> ExcOf(reachable_states), aut |-> m]
     ELSE RemoveAll(m, Listed(m.states \ reachable_states, FALSE))

\* a print that returns on an automaton without states
dfa_print_empty(m) ==
  ExcOf({DetCall(m, state, m.symbols[i]) :
           state \in m.states, i \in 1..Len(m.symbols)})

\* DFA.print (lines 96-145): "" when it returns, else the exception
dfa_print(m) ==
  IF Cardinality(m.states) = 0 THEN "Exception"
  ELSE ExcOf({DetCall(m, state, m.symbols[i]) :
                state \in m.states, i \in 1..Len(m.symbols)})

\* a partition that starts with the accepting and the other states
AcceptingPartition(m) ==
  {{s \in m.states : s.is_accepting}, {s \in m.states : ~s.is_accepting}}

\* a partition that starts with all states in one block
UnsplitPartition(m) == {m.states}

\* the initial value of p and of w (lines 179-182)
InitialPartition(m) == {{m.start_state}, m.states \ {m.start_state}}

\* x of line 189
Preimage(m, block, symbol) == {state \in m.states : DetCall(m, state, symbol) \in block}

\* the blocks of p that x splits (line 201)
SplitBlocks(pp, x) == {y \in pp : Cardinality(x \cap y) > 0 /\ Cardinality(y \ x) > 0}

\* a loop body that leaves the split blocks in p next to their halves
RefinePKeepsSplit(pp, x) ==
  pp \cup {x \cap y : y \in SplitBlocks(pp, x)} \cup {y \ x : y \in SplitBlocks(pp, x)}

\* p after the loop body for one symbol (lines 197-219)
RefineP(pp, x) ==
  (pp \ SplitBlocks(pp, x))
    \cup {x \cap y : y \in SplitBlocks(pp, x)} \cup {y \ x : y \in SplitBlocks(pp, x)}

\* a loop body that puts every block of the new partition into w
RefineWRequeues(pp, ww, x) == ww \cup RefineP(pp, x)

\* w after the loop body for one symbol (lines 207-222)
RefineW(pp, ww, x) ==
  (ww \ {y \in SplitBlocks(pp, x) : y \in ww})
    \cup {x \cap y : y \in SplitBlocks(pp, x) \cap ww}
    \cup {y \ x : y \in SplitBlocks(pp, x) \cap ww}
    \cup {IF Cardinality(x \cap y) <= Cardinality(y \ x) THEN x \cap y ELSE y \ x :
            y \in SplitBlocks(pp, x) \ ww}

\* state_name = f"r{index}"
merged_name(index) == "r" \o ToString(index)

\* the targets of the first state of the class, one per symbol
merge_transition_targets(m, states, rev) ==
  LET state == Listed(states, rev)[1]
  IN [i \in 1..Len(m.symbols) |-> DetCall(m, state, m.symbols[i])]

\* a list that keeps every target and renames those inside the class
merge_fixed_targets_keeping(state_name, transition_targets, states) ==
  [i \in DOMAIN transition_targets |->
     IF transition_targets[i] \in states THEN state_name
     ELSE transition_targets[i].name]

\* fixed_targets: the merged name is appended for a target inside the class and
\* nothing is appended for a target outside it
merge_fixed_targets(state_name, transition_targets, states) ==
  [k \in 1..Cardinality({i \in DOMAIN transition_targets :
                           transition_targets[i] \in states})
     |-> state_name]

\* DFA._merge_states (lines 226-253); list(states)[0] is the first state of
\* Listed(states, rev)
merge_states(m, index, states, rev) ==
  LET state_name == merged_name(index)
      transition_targets == merge_transition_targets(m, states, rev)
      fixed_targets == merge_fixed_targets(state_name, transition_targets, states)
      removed == RemoveAll(m, Listed(states, rev))
      walk == {DetCall(removed.aut, s, removed.aut.symbols[i]) :
                 s \in removed.aut.states, i \in 1..Len(removed.aut.symbols)}
  IN IF ExcOf(Range(transition_targets)) # ""
       THEN [exc |-> ExcOf(Range(transition_targets)), aut |-> m]
     ELSE IF removed.exc # "" THEN removed
     ELSE IF ExcOf(walk) # "" THEN [exc |-> ExcOf(walk), aut |-> removed.aut]
     ELSE IF add_state_raises(removed.aut, \E x \in states : x.is_starting)
       THEN [exc |-> "InvalidStateError", aut |-> removed.aut]
     ELSE [exc |-> "",
           aut |-> abstract_add_state(removed.aut, state_name, fixed_targets,
                                      \E x \in states : x.is_starting,
                                      \E x \in states : x.is_accepting)]

\* the loop of minimize over the classes of more than one state (lines 150-151)
RECURSIVE MergeLoop(_, _, _, _)
MergeLoop(m, classes, i, rev) ==
  IF i > Len(classes) THEN [exc |-> "", aut |-> m]
  ELSE LET r == merge_states(m, i, classes[i], rev)
       IN IF r.exc # "" THEN r ELSE MergeLoop(r.aut, classes, i + 1, rev)

\* the orders in which a set can be enumerated
Enumerations(S) ==
  {f \in [1..Cardinality(S) -> S] : \A i, j \in 1..Cardinality(S) : f[i] = f[j] => i = j}

----------------------------------------------------------------------------
(* The caller: construction, add_state, conversion and minimize calls      *)

Call(op, is_starting, map_states) ==
  [op |-> op, is_starting |-> is_starting, map_states |-> map_states]

\* the states the caller added (the null state of an NFA is added by __init__)
UserStates(m) == m.states \ {m.null_state}

Init ==
  /\ caller \in Callers
  /\ aut = IF caller.kind = "DFA" THEN NewAutomaton("DFA", caller.symbols)
           ELSE IF caller.kind = "NFA" THEN NewNFA("NFA", caller.symbols)
           ELSE NewENFA(caller.symbols)
  /\ out = NoAut
  /\ call = Call("init", FALSE, FALSE)
  /\ err = ""
  /\ pc = "idle"
  /\ p = {}
  /\ w = {}
  /\ a = {}
  /\ sym = 0
  /\ self_word = <<>>
  /\ situations = {}
  /\ processed = EmptyFn
  /\ returned = "none"
  /\ lists = <<>>
  /\ instances = <<>>

\* the add_state calls the caller can make next: any call over its names and
\* targets, or the next call of its script
AddStateCalls ==
  IF caller.script = <<>>
    THEN {AddCall(name, transition_targets, is_starting, is_accepting) :
            name \in caller.names,
            transition_targets \in [1..Len(aut.symbols) -> caller.targets],
            is_starting \in BOOLEAN, is_accepting \in BOOLEAN}
    ELSE {caller.script[Cardinality(UserStates(aut)) + 1]}

\* add_state(name, transition_targets, is_starting, is_accepting) on a DFA, an
\* NFA or an ENFA
AddState ==
  /\ pc = "idle"
  /\ out.kind = "none"
  /\ Cardinality(UserStates(aut)) < Cardinality(caller.names)
  /\ \E c \in AddStateCalls :
       /\ call' = Call("add_state", c.is_starting, FALSE)
       /\ IF add_state_raises(aut, c.is_starting)
            THEN /\ err' = "InvalidStateError"
                 /\ aut' = add_state_raised(aut, c.name, c.transition_targets,
                                            c.is_starting, c.is_accepting)
            ELSE /\ err' = ""
                 /\ aut' = IF aut.kind = "ENFA"
                             THEN enfa_add_state(aut, c.name, c.transition_targets,
                                                 c.is_starting, c.is_accepting)
                             ELSE abstract_add_state(aut, c.name, c.transition_targets,
                                                     c.is_starting, c.is_accepting)
  /\ UNCHANGED <<caller, out, pc, p, w, a, sym>>
  /\ UNCHANGED earley
  /\ UNCHANGED alphabets

\* convert_to_nfa() on an ENFA
ConvertToNfa ==
  /\ pc = "idle"
  /\ out.kind = "none"
  /\ aut.kind = "ENFA"
  /\ \E rev \in BOOLEAN :
       LET r == convert_to_nfa(aut, rev)
       IN /\ call' = Call("convert_to_nfa", FALSE, FALSE)
          /\ err' = r.exc
          /\ out' = r.aut
  /\ UNCHANGED <<caller, aut, pc, p, w, a, sym>>
  /\ UNCHANGED earley
  /\ UNCHANGED alphabets

\* convert_to_dfa(map_states) on an NFA or an ENFA
ConvertToDfa ==
  /\ pc = "idle"
  /\ out.kind = "none"
  /\ aut.kind \in {"NFA", "ENFA"}
  /\ \E map_states \in BOOLEAN, rev \in BOOLEAN :
       LET r == IF aut.kind = "NFA" THEN nfa_convert_to_dfa(aut, map_states, rev)
                ELSE enfa_convert_to_dfa(aut, map_states, rev)
       IN /\ call' = Call("convert_to_dfa", FALSE, map_states)
          /\ err' = r.exc
          /\ out' = r.aut
  /\ UNCHANGED <<caller, aut, pc, p, w, a, sym>>
  /\ UNCHANGED earley
  /\ UNCHANGED alphabets

\* minimize() on a DFA, up to the while loop of _hopcroft_non_distinguishable:
\* _remove_unreachable_states, the initial p and w, self.print()
MinimizeStart ==
  /\ pc = "idle"
  /\ aut.kind = "DFA"
  /\ call' = Call("minimize", FALSE, FALSE)
  /\ LET r == remove_unreachable_states(aut)
     IN /\ aut' = r.aut
        /\ IF r.exc # "" THEN err' = r.exc /\ UNCHANGED <<pc, p, w>>
           ELSE IF dfa_print(r.aut) # ""
             THEN err' = dfa_print(r.aut) /\ UNCHANGED <<pc, p, w>>
           ELSE /\ err' = ""
                /\ pc' = "pop"
                /\ p' = InitialPartition(r.aut)
                /\ w' = InitialPartition(r.aut)
  /\ UNCHANGED <<caller, out, a, sym>>
  /\ UNCHANGED earley
  /\ UNCHANGED alphabets

\* a = w.pop() (lines 186-187)
HopcroftPop ==
  /\ pc = "pop"
  /\ Cardinality(w) > 0
  /\ \E block \in w :
       /\ a' = block
       /\ w' = w \ {block}
  /\ sym' = 1
  /\ pc' = IF Len(aut.symbols) = 0 THEN "pop" ELSE "refine"
  /\ UNCHANGED <<caller, aut, out, call, err, p>>
  /\ UNCHANGED earley
  /\ UNCHANGED alphabets

\* the body of "for symbol in self.symbols" for one symbol (lines 188-222)
HopcroftRefine ==
  /\ pc = "refine"
  /\ LET x == Preimage(aut, a, aut.symbols[sym])
     IN /\ p' = RefineP(p, x)
        /\ w' = RefineW(p, w, x)
  /\ sym' = IF sym = Len(aut.symbols) THEN 0 ELSE sym + 1
  /\ pc' = IF sym = Len(aut.symbols) THEN "pop" ELSE "refine"
  /\ a' = IF sym = Len(aut.symbols) THEN {} ELSE a
  /\ UNCHANGED <<caller, aut, out, call, err>>
  /\ UNCHANGED earley
  /\ UNCHANGED alphabets

\* the end of minimize: the while loop is left with w empty and every class of
\* more than one state is merged (lines 150-151, 224)
MinimizeMerge ==
  /\ pc = "pop"
  /\ Cardinality(w) = 0
  /\ \E classes \in Enumerations({c \in p : Cardinality(c) > 1}), rev \in BOOLEAN :
       LET r == MergeLoop(aut, classes, 1, rev)
       IN aut' = r.aut /\ err' = r.exc
  /\ pc' = "idle"
  /\ p' = {}
  /\ UNCHANGED <<caller, out, call, w, a, sym>>
  /\ UNCHANGED earley
  /\ UNCHANGED alphabets

Next ==
  \/ AddState
  \/ ConvertToNfa
  \/ ConvertToDfa
  \/ MinimizeStart
  \/ HopcroftPop
  \/ HopcroftRefine
  \/ MinimizeMerge

Spec == Init /\ [][Next]_vars

\* minimize() is one synchronous call: once entered, its loop keeps running,
\* a pop or the body for the next symbol being taken whenever there is one
FairSpec == Spec /\ WF_vars(HopcroftPop) /\ WF_vars(HopcroftRefine)

----------------------------------------------------------------------------
(* Grammar and ProductionList: src/grammars; the Earley recognizer:         *)
(* src/grammars/earley.  A Python str is a sequence of one-character        *)
(* strings, a symbol of a grammar is a str.  print_processed only prints.   *)

\* s[k] of a str s, a str of one character; k counts from 0
CharAt(s, k) == <<s[k + 1]>>

ProductionRule(start, target) == [start |-> start, target |-> target]

Grammar(non_terminal, terminal, start_symbol, productions) ==
  [non_terminal |-> non_terminal, terminal |-> terminal,
   start_symbol |-> start_symbol, productions |-> productions]

\* the grammar E -> T | E+T, T -> P | T*P, P -> a of src/tests/grammar_1.py,
\* its productions in the order productions_from_str lists them
grammar_1 ==
  Grammar({<<"T">>, <<"E">>, <<"P">>}, {<<"+">>, <<"*">>, <<"a">>}, <<"E">>,
    << ProductionRule(<<"E">>, <<"T">>),
       ProductionRule(<<"E">>, <<"E", "+", "T">>),
       ProductionRule(<<"T">>, <<"P">>),
       ProductionRule(<<"T">>, <<"T", "*", "P">>),
       ProductionRule(<<"P">>, <<"a">>) >>)

\* Grammar.fix_starting_state: a new start symbol S' with the production S' -> S
fix_starting_state(g) ==
  LET new_start == g.start_symbol \o <<"'">>
  IN [g EXCEPT
        !.productions = @ \o <<ProductionRule(new_start, g.start_symbol)>>,
        !.non_terminal = @ \cup {new_start},
        !.start_symbol = new_start]

\* Earley.__init__: self.grammar, a copy of the grammar with the start fixed
self_grammar == fix_starting_state(grammar_1)

is_non_terminal(g, s) == s \in g.non_terminal

get_productions_for_symbol(g, symbol) ==
  SelectSeq(g.productions, LAMBDA prod : prod.start = symbol)

\* EarleySituation: equal and hashed by (start, target, h, i, p)
EarleySituation(start, target, h, i, dot) ==
  [start |-> start, target |-> target, h |-> h, i |-> i, p |-> dot]

\* the situation word_in_grammar starts from
FirstSituation ==
  EarleySituation(self_grammar.start_symbol, CharAt(self_grammar.start_symbol, 0), 0, 0, 0)

\* the situation word_in_grammar looks for in the end
LastSituation(wd) ==
  EarleySituation(self_grammar.start_symbol, CharAt(self_grammar.start_symbol, 0),
                  0, Len(wd), 1)

\* Earley.prediction: the situations it adds
prediction(situation) ==
  LET non_terminal == CharAt(situation.target, situation.p)
      rules == get_productions_for_symbol(self_grammar, non_terminal)
  IN {EarleySituation(rules[k].start, rules[k].target, situation.i, situation.i, 0) :
        k \in DOMAIN rules}

\* Earley.completion over the processed situations proc: the exception it
\* raises ("" when none) and the situations it adds.  It reads processed[h]
\* (KeyError without that key) and the symbol after the dot of each situation
\* there (IndexError when the dot is at the end)
completion(proc, situation) ==
  IF situation.h \notin DOMAIN proc THEN [exc |-> "KeyError", added |-> {}]
  ELSE IF \E pr \in proc[situation.h] : pr.p >= Len(pr.target)
    THEN [exc |-> "IndexError", added |-> {}]
  ELSE [exc |-> "",
        added |-> {EarleySituation(pr.start, pr.target, pr.h, situation.i, pr.p + 1) :
                     pr \in {x \in proc[situation.h] :
                               CharAt(x.target, x.p) = situation.start}}]

\* Earley.scanning: the situation it adds
scanning(situation) ==
  {EarleySituation(situation.start, situation.target, situation.h,
                   situation.i + 1, situation.p + 1)}

\* a scan that takes the next character of the word whatever it is
ScansAnySymbol(wd, situation) == situation.i < Len(wd)

\* word_in_grammar, line 36: the terminal after the dot is the next character
Scans(wd, situation) ==
  /\ situation.i < Len(wd)
  /\ CharAt(situation.target, situation.p) = CharAt(wd, situation.i)

add_situation_to_processed(proc, situation) ==
  IF situation.i \notin DOMAIN proc THEN (situation.i :> {situation}) @@ proc
  ELSE [proc EXCEPT ![situation.i] = @ \cup {situation}]

situation_processed(proc, situation) ==
  IF situation.i \notin DOMAIN proc THEN FALSE
  ELSE situation \in proc[situation.i]

\* the words of the scenario: a*a+a, a+a*a and a+*a
ScenarioWords ==
  { <<"a", "*", "a", "+", "a">>, <<"a", "+", "a", "*", "a">>, <<"a", "+", "*", "a">> }

\* the words given to word_in_grammar
EarleyWords ==
  ScenarioWords \cup Words({t[1] : t \in grammar_1.terminal}, MaxEarleyLen)

\* word_in_grammar(word), lines 22-25; it can be called again once it returned
WordInGrammar ==
  /\ returned # "running"
  /\ \E wd \in EarleyWords : self_word' = wd
  /\ situations' = {FirstSituation}
  /\ processed' = EmptyFn
  /\ returned' = "running"
  /\ UNCHANGED automata
  /\ UNCHANGED alphabets

\* one turn of the loop: set.pop() takes any of the waiting situations; this
\* one was processed before (lines 28-30)
PopProcessed ==
  /\ returned = "running"
  /\ \E situation \in situations :
       /\ situation_processed(processed, situation)
       /\ situations' = situations \ {situation}
  /\ UNCHANGED <<self_word, processed, returned>>
  /\ UNCHANGED automata
  /\ UNCHANGED alphabets

\* one turn of the loop on a situation with the dot at the end (lines 32-33, 39)
PopCompletion ==
  /\ returned = "running"
  /\ \E situation \in situations :
       /\ ~situation_processed(processed, situation)
       /\ Len(situation.target) = situation.p
       /\ LET r == completion(processed, situation)
          IN IF r.exc # ""
               THEN /\ returned' = r.exc
                    /\ situations' = situations \ {situation}
                    /\ UNCHANGED processed
               ELSE /\ situations' = (situations \ {situation}) \cup r.added
                    /\ processed' = add_situation_to_processed(processed, situation)
                    /\ UNCHANGED returned
  /\ UNCHANGED self_word
  /\ UNCHANGED automata
  /\ UNCHANGED alphabets

\* one turn of the loop on a situation with a non-terminal after the dot
\* (lines 34-35, 39)
PopPrediction ==
  /\ returned = "running"
  /\ \E situation \in situations :
       /\ ~situation_processed(processed, situation)
       /\ Len(situation.target) # situation.p
       /\ is_non_terminal(self_grammar, CharAt(situation.target, situation.p))
       /\ situations' = (situations \ {situation}) \cup prediction(situation)
       /\ processed' = add_situation_to_processed(processed, situation)
  /\ UNCHANGED <<self_word, returned>>
  /\ UNCHANGED automata
  /\ UNCHANGED alphabets

\* one turn of the loop on a situation with the next character of the word
\* after the dot (lines 36-37, 39)
PopScanning ==
  /\ returned = "running"
  /\ \E situation \in situations :
       /\ ~situation_processed(processed, situation)
       /\ Len(situation.target) # situation.p
       /\ ~is_non_terminal(self_grammar, CharAt(situation.target, situation.p))
       /\ Scans(self_word, situation)
       /\ situations' = (situations \ {situation}) \cup scanning(situation)
       /\ processed' = add_situation_to_processed(processed, situation)
  /\ UNCHANGED <<self_word, returned>>
  /\ UNCHANGED automata
  /\ UNCHANGED alphabets

\* one turn of the loop on a situation with another terminal after the dot:
\* no branch is taken, the situation is processed (line 39)
PopOther ==
  /\ returned = "running"
  /\ \E situation \in situations :
       /\ ~situation_processed(processed, situation)
       /\ Len(situation.target) # situation.p
       /\ ~is_non_terminal(self_grammar, CharAt(situation.target, situation.p))
       /\ ~Scans(self_word, situation)
       /\ situations' = situations \ {situation}
       /\ processed' = add_situation_to_processed(processed, situation)
  /\ UNCHANGED <<self_word, returned>>
  /\ UNCHANGED automata
  /\ UNCHANGED alphabets

\* the loop ends when no situation waits; the return of lines 42-43
Return ==
  /\ returned = "running"
  /\ situations = {}
  /\ returned' = IF /\ Len(self_word) \in DOMAIN processed
                    /\ LastSituation(self_word) \in processed[Len(self_word)]
                   THEN "True" ELSE "False"
  /\ UNCHANGED <<self_word, situations, processed>>
  /\ UNCHANGED automata
  /\ UNCHANGED alphabets

\* a recognizer just constructed, next to an automaton just constructed
EarleyInit == Init /\ caller = ScenarioDfa

EarleyNext ==
  \/ WordInGrammar
  \/ PopProcessed
  \/ PopCompletion
  \/ PopPrediction
  \/ PopScanning
  \/ PopOther
  \/ Return

EarleySpec == EarleyInit /\ [][EarleyNext]_vars

----------------------------------------------------------------------------
(* The symbols attribute.  AbstractAutomaton.__init__ keeps the list object *)
(* it is given (self.symbols = symbols), so an automaton refers to a list   *)
(* that its caller and other automata may refer to as well.  An automaton   *)
(* object is followed here by its class and its list only.                  *)

\* the symbol lists a caller writes
CallerLists == {<<"0">>, <<"0", "1">>}

Instance(kind, symbols) == [kind |-> kind, symbols |-> symbols]

\* the caller creates a list of symbols
NewList ==
  /\ Len(lists) < MaxLists
  /\ \E l \in CallerLists : lists' = Append(lists, l)
  /\ err' = ""
  /\ UNCHANGED <<caller, aut, out, call, pc, p, w, a, sym, instances>>
  /\ UNCHANGED earley

\* DFA(symbols) or NFA(symbols) on a list the caller holds: the list is kept
NewDfaOrNfa ==
  /\ Len(instances) < MaxInstances
  /\ \E kind \in {"DFA", "NFA"}, l \in DOMAIN lists :
       instances' = Append(instances, Instance(kind, l))
  /\ err' = ""
  /\ UNCHANGED <<caller, aut, out, call, pc, p, w, a, sym, lists>>
  /\ UNCHANGED earley

\* ENFA(symbols) on a list the caller holds that has no "e": "e" is appended
\* to that list, and the list is kept (enf_automaton.py 50-54)
NewEnfa ==
  /\ Len(instances) < MaxInstances
  /\ \E l \in DOMAIN lists :
       /\ "e" \notin Range(lists[l])
       /\ lists' = [lists EXCEPT ![l] = Append(@, "e")]
       /\ instances' = Append(instances, Instance("ENFA", l))
  /\ err' = ""
  /\ UNCHANGED <<caller, aut, out, call, pc, p, w, a, sym>>
  /\ UNCHANGED earley

\* ENFA(symbols) on a list that has "e": InvalidSymbolError, nothing is created
NewEnfaRaises ==
  /\ Len(instances) < MaxInstances
  /\ \E l \in DOMAIN lists : "e" \in Range(lists[l])
  /\ err' = "InvalidSymbolError"
  /\ UNCHANGED <<caller, aut, out, call, pc, p, w, a, sym>>
  /\ UNCHANGED alphabets
  /\ UNCHANGED earley

\* NFA.convert_to_dfa, line 139: the DFA is created on the list of the NFA
\* (of the NFA made by convert_to_nfa, for an ENFA)
InstanceToDfa ==
  /\ Len(instances) < MaxInstances
  /\ \E i \in DOMAIN instances :
       /\ instances[i].kind = "NFA"
       /\ instances' = Append(instances, Instance("DFA", instances[i].symbols))
  /\ err' = ""
  /\ UNCHANGED <<caller, aut, out, call, pc, p, w, a, sym, lists>>
  /\ UNCHANGED earley

\* ENFA.convert_to_nfa, lines 116-118: the NFA is created on a copy of the
\* list of the ENFA without its last symbol
InstanceToNfa ==
  /\ Len(instances) < MaxInstances
  /\ Len(lists) < MaxLists
  /\ \E i \in DOMAIN instances :
       /\ instances[i].kind = "ENFA"
       /\ LET nfa_symbols == SubSeq(lists[instances[i].symbols], 1,
                                    Len(lists[instances[i].symbols]) - 1)
          IN /\ lists' = Append(lists, nfa_symbols)
             /\ instances' = Append(instances, Instance("NFA", Len(lists) + 1))
  /\ err' = ""
  /\ UNCHANGED <<caller, aut, out, call, pc, p, w, a, sym>>
  /\ UNCHANGED earley

\* no list and no automaton yet
AlphabetInit == Init /\ caller = ScenarioNfa

AlphabetNext ==
  \/ NewList
  \/ NewDfaOrNfa
  \/ NewEnfa
  \/ NewEnfaRaises
  \/ InstanceToDfa
  \/ InstanceToNfa

AlphabetSpec == AlphabetInit /\ [][AlphabetNext]_vars

----------------------------------------------------------------------------
(* Notions the claims are stated with *)

\* the words the language claims quantify over
WordsOver(symbols) == Words(Range(symbols), MaxWordLen)

\* every target name of every transition resolves to a state of the automaton
AllTargetsResolve(m) ==
  \A n \in DOMAIN m.transition_map : \A s \in DOMAIN m.transition_map[n] :
    IF m.kind = "DFA" THEN m.transition_map[n][s] \in DOMAIN m.state_map
    ELSE m.transition_map[n][s] \subseteq DOMAIN m.state_map

\* built by add_state calls with one start state and all targets resolving
WellBuilt(m) == m.start_state # None /\ AllTargetsResolve(m)

\* a complete DFA: from every state every symbol leads to a state
Complete(m) ==
  \A s \in m.states : \A i \in 1..Len(m.symbols) : ~IsExc(DetCall(m, s, m.symbols[i]))

\* the states reachable from the start state by some word
ReachableFromStart(m) ==
  {DfaFold(m, m.start_state, word) :
     word \in Words(Range(m.symbols), Cardinality(m.states))}

\* two states of a DFA accept exactly the same words
LanguageEquivalent(m, s, t) ==
  \A word \in WordsOver(m.symbols) :
    Outcome(DfaFold(m, s, word)) = Outcome(DfaFold(m, t, word))

\* the epsilon moves of a state: the states its "e" targets name
EpsilonMoves(m, s) ==
  IF "e" \in DOMAIN m.transition_map[s.name]
    THEN {m.state_map[n] : n \in m.transition_map[s.name]["e"] \cap DOMAIN m.state_map}
    ELSE {}

\* the smallest set that contains s and is closed under epsilon moves
RECURSIVE LeastClosed(_, _)
LeastClosed(m, S) ==
  LET T == S \cup UNION {EpsilonMoves(m, s) : s \in S}
  IN IF T = S THEN S ELSE LeastClosed(m, T)

\* no two states of the automaton share a name
NamesDistinct(m) == m.states = Range(m.state_map)

\* the caller has made every add_state call of its script
ScriptDone ==
  caller.script # <<>> /\ Cardinality(UserStates(aut)) = Len(caller.script)

\* at most one state is flagged starting, and start_state is that state
OneStart(m) ==
  LET starting == {s \in m.states : s.is_starting}
  IN /\ Cardinality(starting) <= 1
     /\ IF starting = {} THEN m.start_state = None ELSE starting = {m.start_state}

----------------------------------------------------------------------------
(* Claims *)

\* C1: for every NFA built by add_state calls (one start state, every target
\* resolving) and every word over its alphabet, the empty word included,
\* convert_to_dfa returns a DFA whose accepts_word equals the NFA's, for
\* map_states True and False.
C1_NfaToDfaPreservesLanguage ==
  (call.op = "convert_to_dfa" /\ aut.kind = "NFA" /\ WellBuilt(aut)) =>
    /\ err = ""
    /\ \A word \in WordsOver(aut.symbols) :
         nfa_accepts_word(aut, word) = dfa_accepts_word(out, word)

\* C2: for every ENFA built by add_state calls (one start state, all targets
\* resolving) and every word over its non-epsilon alphabet, convert_to_dfa
\* returns a DFA whose accepts_word equals the ENFA's.
C2_EnfaToDfaPreservesLanguage ==
  (call.op = "convert_to_dfa" /\ aut.kind = "ENFA" /\ WellBuilt(aut)) =>
    /\ err = ""
    /\ \A word \in WordsOver(caller.symbols) :
         enfa_accepts_word(aut, word) = dfa_accepts_word(out, word)

\* C3: on a complete DFA with a start state, every step of minimize() leaves
\* accepts_word(word) the same boolean for every word over the alphabet, so it
\* is the same before and after minimize().
C3_MinimizePreservesLanguage ==
  [][(call'.op = "minimize" /\ aut.kind = "DFA" /\ aut.start_state # None
        /\ Complete(aut)) =>
       \A word \in WordsOver(aut.symbols) :
         /\ dfa_accepts_word(aut, word) \in {"True", "False"}
         /\ dfa_accepts_word(aut', word) = dfa_accepts_word(aut, word)]_vars

\* C3 witness: minimize() has returned on a DFA of three states that accepts
\* some word and rejects another
C3_Witness ==
  /\ call.op = "minimize" /\ pc = "idle" /\ err = ""
  /\ Cardinality(aut.states) = 3
  /\ \E u, v \in WordsOver(aut.symbols) :
       dfa_accepts_word(aut, u) = "True" /\ dfa_accepts_word(aut, v) = "False"

\* C4: after minimize() has completed on a complete DFA, no two distinct states
\* of the DFA are language-equivalent, the start state included.
C4_MinimizedHasNoEquivalentStates ==
  (call.op = "minimize" /\ pc = "idle" /\ err = "" /\ Complete(aut)
     /\ NamesDistinct(aut)) =>
    \A s, t \in aut.states : s # t => ~LanguageEquivalent(aut, s, t)

\* C5: on a DFA, NFA or ENFA that already has a start state,
\* add_state(..., is_starting=True) raises the duplicate-start-state error
\* (InvalidStateError), whatever the name, the targets and the accepting flag.
C5_SecondStartStateFails ==
  [][(call'.op = "add_state" /\ call'.is_starting /\ aut.start_state # None) =>
       err' = "InvalidStateError"]_vars

\* C5 witness: an ENFA with a start state has refused a second one
C5_Witness ==
  /\ aut.kind = "ENFA" /\ aut.start_state # None
  /\ call.op = "add_state" /\ call.is_starting /\ err = "InvalidStateError"

\* C6: in every reachable state each automaton (the one built and the one a
\* conversion returned) has at most one state with is_starting true, and its
\* start_state is that state, None when there is none.
C6_AtMostOneStartState == OneStart(aut) /\ OneStart(out)

\* C6 witness: an ENFA with a start state and another state was converted to a
\* DFA, which has its own start state among several states
C6_Witness ==
  /\ aut.kind = "ENFA" /\ aut.start_state # None /\ Cardinality(UserStates(aut)) = 2
  /\ out.kind = "DFA" /\ out.start_state # None /\ Cardinality(out.states) >= 2

\* C7: the pruning phase of minimize removes exactly the states that cannot be
\* reached from the start state: afterwards the states are the reachable ones,
\* the start state among them.
C7_PruningRemovesExactlyUnreachable ==
  [][(pc = "idle" /\ call'.op = "minimize" /\ aut.kind = "DFA"
        /\ aut.start_state # None /\ Complete(aut) /\ NamesDistinct(aut)) =>
       /\ aut'.states = ReachableFromStart(aut)
       /\ aut'.start_state = aut.start_state]_vars

\* C8: for an ENFA whose states A and B form an epsilon cycle (A moves to B and
\* B to A on epsilon), add_state leaves a closure map with closure(A) =
\* closure(B) = {A, B}; for a state with an epsilon self-loop the closure is
\* the state itself.
C8_ClosureOfEpsilonCycle ==
  (aut.kind = "ENFA" /\ AllTargetsResolve(aut)) =>
    \A A, B \in Range(aut.state_map) :
      (EpsilonMoves(aut, A) = {B} /\ EpsilonMoves(aut, B) = {A}) =>
        /\ aut.e_closure.defined
        /\ aut.e_closure.map[A] = {A, B}
        /\ aut.e_closure.map[B] = {A, B}

\* C9: after every add_state call on an ENFA the closure map holds, for every
\* state of the automaton (the null state included), exactly the smallest set
\* that contains the state and is closed under epsilon moves.
C9_ClosureIsLeastClosedSet ==
  (aut.kind = "ENFA" /\ AllTargetsResolve(aut)) =>
    /\ aut.e_closure.defined
    /\ DOMAIN aut.e_closure.map = aut.states
    /\ \A s \in aut.states : aut.e_closure.map[s] = LeastClosed(aut, {s})

\* C10: whenever the closure map of an ENFA is defined, the closure of every
\* state contains the state itself.
C10_ClosureIsReflexive ==
  (aut.kind = "ENFA" /\ aut.e_closure.defined) =>
    /\ DOMAIN aut.e_closure.map = aut.states
    /\ \A s \in aut.states : s \in aut.e_closure.map[s]

\* C10 witness: a closure map is defined in which some state reaches another
C10_Witness ==
  /\ aut.kind = "ENFA" /\ aut.e_closure.defined /\ call.op = "add_state"
  /\ \E s \in aut.states : Cardinality(aut.e_closure.map[s]) >= 2

\* C11: for the NFA over {0, 1} with start q1 (0 -> {q1}, 1 -> {q1, q2}), q2
\* (0 -> {q3}, 1 -> {q3}) and accepting q3 without transitions, the DFA that
\* convert_to_dfa returns accepts "11" and rejects "00".
C11_ScenarioNfaToDfa ==
  (caller = ScenarioNfa /\ ScriptDone /\ call.op = "convert_to_dfa") =>
    /\ err = ""
    /\ dfa_accepts_word(out, <<"1", "1">>) = "True"
    /\ dfa_accepts_word(out, <<"0", "0">>) = "False"

\* C11 witness: the scenario NFA was converted, keeping the raw state names,
\* to a DFA with the state {q1, q2, q3}
C11_Witness ==
  /\ caller = ScenarioNfa /\ ScriptDone
  /\ call.op = "convert_to_dfa" /\ ~call.map_states /\ out.kind = "DFA"
  /\ \E s \in out.states : s.name \in {"{q1, q2, q3}", "{q3, q2, q1}"}

\* C12: for the DFA over {0, 1} with q0 (start, 0 -> q0, 1 -> q1) and q1
\* (accepting, 0 -> q0, 1 -> q1), minimize() returns and leaves exactly the two
\* states q0 and q1, and accepts_word("011") is true before, during and after.
C12_ScenarioDfaAlreadyMinimal ==
  (caller = ScenarioDfa /\ ScriptDone) =>
    /\ Cardinality(aut.states) = 2
    /\ {s.name : s \in aut.states} = {"q0", "q1"}
    /\ dfa_accepts_word(aut, <<"0", "1", "1">>) = "True"
    /\ call.op = "minimize" => err = ""

\* C12 witness: minimize() has returned on the scenario DFA
C12_Witness ==
  /\ caller = ScenarioDfa /\ ScriptDone
  /\ call.op = "minimize" /\ pc = "idle" /\ err = ""

\* characters outside every alphabet of the callers: a whitespace character and
\* a letter
OtherChars == {" ", "x"}

\* C15: on a DFA, NFA or ENFA accepts_word raises the invalid-symbol error
\* (InvalidSymbolError) for every word with a character outside the alphabet,
\* leading and trailing whitespace included, and the no-start-state error
\* (InvalidStateError) for every word over the alphabet when no start state was
\* set; no boolean and no other error comes back.
C15_RecognitionErrors ==
  \A word \in Words(Range(caller.symbols) \cup OtherChars, MaxWordLen) :
    /\ (\E i \in DOMAIN word : word[i] \notin Range(caller.symbols)) =>
         accepts_word(aut, word) = "InvalidSymbolError"
    /\ ((\A i \in DOMAIN word : word[i] \in Range(caller.symbols))
          /\ aut.start_state = None) =>
         accepts_word(aut, word) = "InvalidStateError"

\* t is a target of s on symbol in the transition relation
Moves(m, s, symbol, t) ==
  /\ symbol \in DOMAIN m.transition_map[s.name]
  /\ t.name \in m.transition_map[s.name][symbol]
  /\ m.state_map[t.name] = t

\* some path from the start state, labelled by the word, ends in an accepting
\* state
HasAcceptingPath(m, word) ==
  \E path \in [1..(Len(word) + 1) -> m.states] :
    /\ path[1] = m.start_state
    /\ \A i \in 1..Len(word) : Moves(m, path[i], word[i], path[i + 1])
    /\ path[Len(word) + 1].is_accepting

\* C16: on an NFA with a start state whose targets all resolve,
\* accepts_word(word) is true exactly when some path through the transition
\* relation from the start state, labelled by the word, ends in an accepting
\* state; when the set of current states becomes empty the result is false, not
\* an error.
C16_NfaAcceptsIffAcceptingPath ==
  (aut.kind = "NFA" /\ WellBuilt(aut)) =>
    \A word \in WordsOver(aut.symbols) :
      nfa_accepts_word(aut, word) =
        IF HasAcceptingPath(aut, word) THEN "True" ELSE "False"

\* C16 witness: an NFA accepts a word along one of two branches and the
\* current states of another word run empty
C16_Witness ==
  /\ aut.kind = "NFA" /\ WellBuilt(aut)
  /\ \E u, v \in WordsOver(aut.symbols) :
       /\ nfa_accepts_word(aut, u) = "True"
       /\ Cardinality(nfa_get_resulting_state(aut, u)) >= 2
       /\ nfa_get_resulting_state(aut, v) = {}

\* C17: on a DFA the deterministic transition function, evaluated on a state
\* and a symbol, returns the state whose name is stored for the pair; it raises
\* the undefined-transition error (TransitionFunctionError) when nothing is
\* stored for the pair and the dangling-target error (KeyError) when the stored
\* name has no state; it never returns None.
C17_DeterministicLookup ==
  aut.kind = "DFA" =>
    \A state \in aut.states, symbol \in Range(aut.symbols) \cup OtherChars :
      LET row == aut.transition_map[state.name]
          result == DetCall(aut, state, symbol)
      IN /\ result # None
         /\ symbol \notin DOMAIN row => result = Exc("TransitionFunctionError")
         /\ (symbol \in DOMAIN row /\ row[symbol] \notin DOMAIN aut.state_map) =>
              result = Exc("KeyError")
         /\ (symbol \in DOMAIN row /\ row[symbol] \in DOMAIN aut.state_map) =>
              result \in aut.states /\ result.name = row[symbol]

\* C17 witness: a DFA in which one lookup returns a state, one finds no target
\* for a symbol of the alphabet and one finds a name without a state
C17_Witness ==
  /\ aut.kind = "DFA"
  /\ \E s, t, u \in aut.states, x, y, z \in Range(aut.symbols) :
       /\ DetCall(aut, s, x) \in aut.states
       /\ DetCall(aut, t, y) = Exc("TransitionFunctionError")
       /\ DetCall(aut, u, z) = Exc("KeyError")

\* C18: on an NFA or ENFA the non-deterministic transition function returns
\* the empty set, not an error, when no target set is stored for the state and
\* symbol; when one is stored it returns exactly the states named in it, and
\* raises the dangling-target error (KeyError) if a stored name has no state.
C18_NonDeterministicLookup ==
  aut.kind \in {"NFA", "ENFA"} =>
    \A state \in aut.states, symbol \in Range(aut.symbols) \cup OtherChars :
      LET row == aut.transition_map[state.name]
          result == NonDetCall(aut, state, symbol)
      IN /\ symbol \notin DOMAIN row => result = {}
         /\ (symbol \in DOMAIN row /\ ~(row[symbol] \subseteq DOMAIN aut.state_map)) =>
              result = {Exc("KeyError")}
         /\ (symbol \in DOMAIN row /\ row[symbol] \subseteq DOMAIN aut.state_map) =>
              /\ result \subseteq aut.states
              /\ {t.name : t \in result} = row[symbol]

\* C18 witness: an NFA in which one lookup returns two states, one finds no
\* target set for a symbol of the alphabet and one finds a name without a state
C18_Witness ==
  /\ aut.kind = "NFA"
  /\ \E s, t, u \in aut.states, x, y, z \in Range(aut.symbols) :
       /\ NonDetCall(aut, s, x) \subseteq aut.states
       /\ Cardinality(NonDetCall(aut, s, x)) = 2
       /\ y \notin DOMAIN aut.transition_map[t.name]
       /\ NonDetCall(aut, t, y) = {}
       /\ NonDetCall(aut, u, z) = {Exc("KeyError")}

\* the names stored as targets of a state on a symbol
StoredNames(m, s, symbol) ==
  IF m.kind = "DFA" THEN {m.transition_map[s.name][symbol]}
  ELSE m.transition_map[s.name][symbol]

\* the outcome of the transition lookup of either kind, as a set
Lookup(m, s, symbol) ==
  IF m.kind = "DFA" THEN {DetCall(m, s, symbol)} ELSE NonDetCall(m, s, symbol)

\* C19: add_state accepts targets that name states not yet added.  A call
\* fails only for a second start state; a successful call stores the targets
\* it was given, whether or not they name a state; a lookup through a stored
\* target without a state raises the dangling-target error (KeyError) before
\* and after the call for as long as the name is missing, and returns the
\* state added under that name once it is there.
C19_ForwardReferences ==
  [][(call'.op = "add_state" /\ aut' # aut) =>
       /\ err' = ""
       /\ \E c \in AddStateCalls :
            /\ c.name \in DOMAIN aut'.state_map
            /\ aut'.state_map[c.name] \in aut'.states \ aut.states
            /\ \A i \in 1..Min(Len(aut.symbols), Len(c.transition_targets)) :
                 /\ aut.symbols[i] \in DOMAIN aut'.transition_map[c.name]
                 /\ StoredNames(aut', aut'.state_map[c.name], aut.symbols[i])
                      = IF aut.kind = "DFA" THEN {c.transition_targets[i]}
                        ELSE c.transition_targets[i]
       /\ \A s \in aut.states :
            \A symbol \in DOMAIN aut.transition_map[s.name] :
              (/\ aut'.transition_map[s.name] = aut.transition_map[s.name]
               /\ ~(StoredNames(aut, s, symbol) \subseteq DOMAIN aut.state_map)) =>
                /\ Lookup(aut, s, symbol) = {Exc("KeyError")}
                /\ Lookup(aut', s, symbol) =
                     IF StoredNames(aut, s, symbol) \subseteq DOMAIN aut'.state_map
                       THEN {aut'.state_map[n] : n \in StoredNames(aut, s, symbol)}
                       ELSE {Exc("KeyError")}]_vars
      /\ [][(call'.op = "add_state" /\ aut' = aut /\ call' # call) =>
              (call'.is_starting /\ aut.start_state # None)]_vars

\* C19 witness: state a was added with the target b before b was, b with the
\* target c that is never added; the lookup from a returns b, the one from b
\* raises
C19_Witness ==
  /\ caller = ShortTargetsDfa /\ ScriptDone
  /\ DetCall(aut, aut.state_map["a"], "0") = aut.state_map["b"]
  /\ DetCall(aut, aut.state_map["b"], "1") = Exc("KeyError")

\* C20: after any sequence of add_state calls no two members of the state set
\* have the same name, and every member is the state its name resolves to in
\* the name table of the transition function.
C20_StateNamesUnique ==
  /\ \A s, t \in aut.states : s.name = t.name => s = t
  /\ \A s \in aut.states :
       s.name \in DOMAIN aut.state_map /\ aut.state_map[s.name] = s

\* a sequence of symbols of the grammar derives the word wd; no production of
\* the grammar is empty, so every symbol derives at least one character
RECURSIVE DerivesSeq(_, _, _)
DerivesSeq(g, target, wd) ==
  IF target = <<>> THEN wd = <<>>
  ELSE IF Len(wd) < Len(target) THEN FALSE
  ELSE \E k \in 1..(Len(wd) - Len(target) + 1) :
         /\ DerivesSeq(g, Tail(target), SubSeq(wd, k + 1, Len(wd)))
         /\ LET symbol == <<Head(target)>>
                part == SubSeq(wd, 1, k)
            IN IF symbol \in g.non_terminal
                 THEN \E r \in DOMAIN g.productions :
                        /\ g.productions[r].start = symbol
                        /\ DerivesSeq(g, g.productions[r].target, part)
                 ELSE part = symbol

\* the grammar derives the word from its start symbol
Derives(g, wd) == DerivesSeq(g, g.start_symbol, wd)

\* C13: for the grammar of the scenario word_in_grammar returns true for
\* a*a+a and for a+a*a, whatever the order in which the waiting situations
\* are popped.
C13_AcceptsScenarioWords ==
  (/\ returned \notin {"none", "running"}
   /\ self_word \in {<<"a", "*", "a", "+", "a">>, <<"a", "+", "a", "*", "a">>}) =>
    returned = "True"

\* C14: word_in_grammar returns false for a+*a whatever the order in which
\* the waiting situations are popped, and never returns true for a word the
\* grammar does not derive.
C14_RejectsUnderivedWords ==
  /\ (returned \notin {"none", "running"} /\ self_word = <<"a", "+", "*", "a">>) =>
       returned = "False"
  /\ returned = "True" => Derives(grammar_1, self_word)

\* C14 witness: word_in_grammar has returned false for a+*a
C14_Witness ==
  /\ self_word = <<"a", "+", "*", "a">>
  /\ ~Derives(grammar_1, self_word)
  /\ returned = "False"

\* C21: states are compared and hashed by name and role flags: two states of
\* a state set with the same name, is_starting and is_accepting are one
\* element, two with the same name and different flags are distinct.
C21_StatesEqualByNameAndFlags ==
  \A s, t \in aut.states :
    /\ (s.name = t.name /\ s.is_starting = t.is_starting
          /\ s.is_accepting = t.is_accepting) => s = t
    /\ (s.name = t.name /\ (s.is_starting # t.is_starting
          \/ s.is_accepting # t.is_accepting)) => s # t

\* C22: the alphabet of an automaton never changes after its construction:
\* no later operation, the construction or conversion of another automaton
\* from the same list included, adds, removes or reorders a symbol of an
\* automaton that exists.
C22_AlphabetNeverChanges ==
  [][\A i \in DOMAIN instances :
       lists'[instances[i].symbols] = lists[instances[i].symbols]]_vars

\* C23: minimize() on a DFA without a start state fails with an error,
\* whatever its states and its alphabet, the empty ones included; it never
\* goes on to the refinement and never returns normally.
C23_MinimizeWithoutStartFails ==
  [][(pc = "idle" /\ call'.op = "minimize" /\ aut.start_state = None
        /\ <<call, err, pc>> # <<call', err', pc'>>) =>
       (err' # "" /\ pc' = "idle" /\ aut' = aut)]_vars

\* C23 witness: minimize() has failed on a DFA without states over the empty
\* alphabet, and on a DFA with states and no start state
C23_Witness ==
  /\ call.op = "minimize" /\ aut.start_state = None /\ pc = "idle"
  /\ \/ aut.states = {} /\ aut.symbols = <<>> /\ err = "Exception"
     \/ aut.states # {} /\ err = "AttributeError"

\* the position of a symbol in the alphabet
SymbolIndex(symbols, c) == CHOOSE i \in DOMAIN symbols : symbols[i] = c

\* u comes before v: it is shorter, or as long and first in alphabet order
RECURSIVE ComesBefore(_, _, _)
ComesBefore(symbols, u, v) ==
  IF Len(u) # Len(v) THEN Len(u) < Len(v)
  ELSE IF u = <<>> THEN FALSE
  ELSE IF Head(u) # Head(v)
    THEN SymbolIndex(symbols, Head(u)) < SymbolIndex(symbols, Head(v))
  ELSE ComesBefore(symbols, Tail(u), Tail(v))

\* C24: when no word of length 1..N makes accepts_word fail,
\* get_all_accepted_words(N) returns exactly the words over the alphabet of
\* length 1..N that accepts_word accepts, each once, ordered by length and
\* within a length by alphabet order; the empty word is never in the result,
\* and the result is empty for N <= 0.
C24_AllAcceptedWords ==
  \A n \in -1..MaxEnumLen :
    LET r == get_all_accepted_words(aut, n)
        over == {v \in Words(Range(aut.symbols), IF n < 0 THEN 0 ELSE n) : Len(v) >= 1}
    IN /\ n <= 0 => r = [exc |-> "", words |-> <<>>]
       /\ (\A v \in over : accepts_word(aut, v) \in {"True", "False"}) =>
            /\ r.exc = ""
            /\ Range(r.words) = {v \in over : accepts_word(aut, v) = "True"}
            /\ \A i, j \in DOMAIN r.words :
                 i < j => ComesBefore(aut.symbols, r.words[i], r.words[j])
            /\ <<>> \notin Range(r.words)

\* C24 witness: an automaton whose result for N = 2 has two words of one
\* length and a word of another, and leaves a word out
C24_Witness ==
  LET r == get_all_accepted_words(aut, 2)
  IN /\ r.exc = ""
     /\ \E i, j, k \in DOMAIN r.words :
          i < j /\ Len(r.words[i]) = Len(r.words[j]) /\ Len(r.words[k]) # Len(r.words[i])
     /\ \E v \in WordsOfLen(Range(aut.symbols), 2) : v \notin Range(r.words)

\* the union of the targets of the states of S on a symbol
ImageSet(m, S, symbol) == UNION {NonDetCall(m, x, symbol) : x \in S}

\* the sets of NFA states reachable from found under per-symbol images
RECURSIVE ReachSets(_, _)
ReachSets(m, found) ==
  LET next == found \cup {ImageSet(m, S, m.symbols[i]) :
                            S \in found, i \in 1..Len(m.symbols)}
  IN IF next = found THEN found ELSE ReachSets(m, next)

\* the words that lead the DFA d from its start state to s
AccessWords(d, s) ==
  {u \in Words(Range(d.symbols), Cardinality(d.states)) :
     DfaFold(d, d.start_state, u) = s}

\* the first access word of s: the shortest, and first in alphabet order
MinWord(d, s) ==
  CHOOSE u \in AccessWords(d, s) :
    \A v \in AccessWords(d, s) \ {u} : ComesBefore(d.symbols, u, v)

C26_ConvertedDfaIsTotal ==
  (call.op = "convert_to_dfa" /\ err = "") =>
    /\ out.kind = "DFA"
    /\ \A s \in out.states : \A i \in 1..Len(out.symbols) :
         DetCall(out, s, out.symbols[i]) \in out.states
    /\ (aut.kind = "NFA" /\ {} \in ReachSets(aut, {{aut.start_state}})) =>
         \E sink \in out.states :
           /\ ~sink.is_accepting
           /\ \A i \in 1..Len(out.symbols) : DetCall(out, sink, out.symbols[i]) = sink
    /\ \A word \in WordsOver(out.symbols) :
         dfa_accepts_word(out, word) \in {"True", "False"}

\* C26 witness: a conversion that returned a DFA with a sink for the empty
\* set next to an accepting state
C26_Witness ==
  /\ call.op = "convert_to_dfa" /\ err = "" /\ aut.kind = "NFA"
  /\ {} \in ReachSets(aut, {{aut.start_state}})
  /\ \E s \in out.states : s.is_accepting
  /\ Cardinality(out.states) >= 3

\* the refinement loop of minimize() has ended: w is empty, no class merged yet
RefinementDone == pc = "pop" /\ w = {}

\* C27: when the partition refinement ends on a complete DFA, any two states
\* of one block are language-equivalent, in particular both accepting or both
\* not, and for every symbol their successors lie in one common block.
C27_BlocksAreEquivalenceClasses ==
  (RefinementDone /\ Complete(aut) /\ NamesDistinct(aut)) =>
    \A block \in p : \A s, t \in block :
      /\ s.is_accepting = t.is_accepting
      /\ LanguageEquivalent(aut, s, t)
      /\ \A i \in 1..Len(aut.symbols) :
           \E common \in p :
             /\ DetCall(aut, s, aut.symbols[i]) \in common
             /\ DetCall(aut, t, aut.symbols[i]) \in common

\* C28: the partition refinement loop terminates: once minimize() has entered
\* it (on a complete DFA with a start state, as its pruning and printing
\* require), w becomes empty, whatever block is popped at each step.
C28_RefinementTerminates == (pc # "idle") ~> RefinementDone

\* C28 witness: the loop has ended after it split a block
C28_Witness ==
  /\ RefinementDone /\ call.op = "minimize"
  /\ Complete(aut) /\ aut.start_state # None
  /\ Cardinality(p) >= 3

\* C29: at every step of the partition refinement the blocks of p are
\* pairwise disjoint, their union is the state set of the DFA, and every
\* block of w is a block of p.
C29_PartitionInvariant ==
  pc # "idle" =>
    /\ \A b1, b2 \in p : b1 # b2 => b1 \cap b2 = {}
    /\ UNION p = aut.states
    /\ w \subseteq p

\* C29 witness: inside the loop, after a split, with a block waiting in w
C29_Witness ==
  /\ pc # "idle"
  /\ Cardinality(p) >= 3
  /\ w # {}

\* C30: the start state stays alone in its block throughout the partition
\* refinement, and no step of minimize() merges or removes it: the start
\* state stays the same state of the DFA, no state that minimize() adds is
\* flagged starting, and minimize() never fails with the duplicate-start
\* error (InvalidStateError).
C30_StartStateStaysAlone ==
  /\ [](pc # "idle" => {aut.start_state} \in p)
  /\ [][call'.op = "minimize" =>
          /\ aut'.start_state = aut.start_state
          /\ aut.start_state \in aut.states => aut.start_state \in aut'.states
          /\ \A s \in aut'.states \ aut.states : ~s.is_starting
          /\ err' # "InvalidStateError"]_vars

\* C30 witness: minimize() has gone through the refinement of a DFA of at
\* least three states, all reachable, and has ended in the merge of a block
C30_Witness ==
  /\ call.op = "minimize" /\ pc = "idle" /\ err # ""
  /\ Complete(aut) /\ aut.start_state \in aut.states
  /\ ReachableFromStart(aut) = aut.states
  /\ Cardinality(aut.states) >= 3

\* C31: when the classes of a DFA are merged, the list of targets handed to
\* add_state for a class of more than one state gives the merged state one
\* transition for every symbol of the alphabet, in order: the merged name where
\* the representative's target lies inside the class, the target's own name
\* where it lies outside
C31_MergedTransitions ==
  RefinementDone =>
    \A states \in {c \in p : Cardinality(c) > 1}, rev \in BOOLEAN :
      LET transition_targets == merge_transition_targets(aut, states, rev)
          row == set_transitions_for_state(aut.symbols,
                   merge_fixed_targets(merged_name(1), transition_targets, states))
      IN ExcOf(Range(transition_targets)) = "" =>
           /\ DOMAIN row = Range(aut.symbols)
           /\ \A i \in 1..Len(aut.symbols) :
                aut.symbols[i] \in DOMAIN row =>
                  row[aut.symbols[i]] =
                    merge_fixed_targets_keeping(merged_name(1), transition_targets,
                                                states)[i]

\* C32: after the merge phase of minimize() no transition of a remaining state
\* is dangling: the merge ends without an error, every target resolves, every
\* transition that led to a member of a merged class leads to a state added by
\* the merge and named r1, r2, ..., and every other transition is unchanged
C32_NoDanglingAfterMerge ==
  [][(RefinementDone /\ pc' = "idle" /\ \E c \in p : Cardinality(c) > 1) =>
       LET merged == UNION {c \in p : Cardinality(c) > 1}
       IN /\ err' = ""
          /\ AllTargetsResolve(aut')
          /\ \A s \in aut.states \ merged : \A i \in 1..Len(aut.symbols) :
               LET t == DetCall(aut, s, aut.symbols[i])
               IN ~IsExc(t) =>
                    /\ s.name \in DOMAIN aut'.transition_map
                    /\ aut.symbols[i] \in DOMAIN aut'.transition_map[s.name]
                    /\ LET name == aut'.transition_map[s.name][aut.symbols[i]]
                       IN IF t \in merged
                            THEN /\ name \in {merged_name(k) : k \in 1..Cardinality(p)}
                                 /\ name \in DOMAIN aut'.state_map
                                 /\ aut'.state_map[name] \notin aut.states
                          ELSE name = t.name]_vars

\* C33: the merge phase of minimize() deletes every member of every class of
\* more than one state, keeps the other states, and adds exactly one state per
\* such class, named r1, r2, ... in some order of the classes, accepting iff a
\* member is accepting and starting iff a member is starting
C33_MergeReplacesClass ==
  [][(RefinementDone /\ pc' = "idle") =>
       LET classes == {c \in p : Cardinality(c) > 1}
           added == aut'.states \ aut.states
       IN /\ aut'.states \cap UNION classes = {}
          /\ aut.states \ UNION classes \subseteq aut'.states
          /\ Cardinality(added) = Cardinality(classes)
          /\ \E order \in Enumerations(classes) :
               \A k \in 1..Len(order) :
                 \E s \in added :
                   /\ s.name = merged_name(k)
                   /\ s.is_accepting = (\E x \in order[k] : x.is_accepting)
                   /\ s.is_starting = (\E x \in order[k] : x.is_starting)]_vars

\* C34: after any sequence of add_state calls on an NFA or an ENFA the null
\* state is a state of the automaton, is neither starting nor accepting, and
\* evaluating the transition function on it yields the empty set for every
\* symbol
C34_NullStateInert ==
  (aut.kind \in {"NFA", "ENFA"} /\ call.op \in {"init", "add_state"}) =>
    /\ aut.null_state \in aut.states
    /\ ~aut.null_state.is_starting
    /\ ~aut.null_state.is_accepting
    /\ \A i \in 1..Len(aut.symbols) :
         NonDetCall(aut, aut.null_state, aut.symbols[i]) = {}

\* C35: an add_state call that fails with the duplicate-start-state error
\* (InvalidStateError) leaves the automaton as it was: the state set, the start
\* state, the name table and the transition rows of the transition function
\* and, for an ENFA, the epsilon-closure map
C35_FailedAddStateChangesNothing ==
  [][(call'.op = "add_state" /\ err' = "InvalidStateError") =>
       /\ aut'.states = aut.states
       /\ aut'.start_state = aut.start_state
       /\ aut'.state_map = aut.state_map
       /\ aut'.transition_map = aut.transition_map
       /\ aut'.e_closure = aut.e_closure
       /\ aut' = aut]_vars

\* C35 witness: add_state has failed on an ENFA that has a start state and a
\* computed epsilon-closure map with an entry for it
C35_Witness ==
  /\ call.op = "add_state" /\ err = "InvalidStateError"
  /\ aut.kind = "ENFA"
  /\ aut.start_state \in aut.states
  /\ aut.e_closure.defined
  /\ aut.start_state \in DOMAIN aut.e_closure.map

====
